---- MODULE Spec2Model ----
(***************************************************************************)
(* Model of the rendering core of webgpu-engine:                           *)
(*   - the WebGPU resource registry (sharedBuffers / sharedTextures),      *)
(*   - TrianglePass.createMeshBuffer (geometry batching) and its render,   *)
(*   - BasicRenderer.render (one frame).                                   *)
(* Spec      drives the registry with arbitrary public calls, one source   *)
(*           statement per step inside createBuffer / createTexture.       *)
(* SpecFrame drives BasicRenderer.render frames over bounded scenes.       *)
(***************************************************************************)
EXTENDS Integers, Sequences, FiniteSets, TLC

\* ------------------------------------------------------------------ bounds
\* GPU objects the device may hand out in one behaviour of Spec.
MaxResources == 3
\* Entities of a scene.
MaxEntities == 3
\* Frames rendered in one behaviour of SpecFrame.
MaxFrames == 2
\* Concurrent WebGPU.initializeInstance calls in one behaviour of SpecInit.
MaxInstances == 2

\* ---------------------------------------------------------------- constants
FloatsPerMatrix == 16
FieldsPerDraw == 5
BytesPerElement == 4
\* WebGPU.minBuffersize: the configured minimum allocation (spec 4.1).
minBuffersize == 32

Labels == {"object-index", "vertex"}
Sizes == {32, 64}
Kinds == {"buffer", "texture"}

\* GPUBufferDescriptor / GPUTextureDescriptor, as far as the model reads them.
BufferDescriptor(size) == [size |-> size]
TextureDescriptor(width, height) == [width |-> width, height |-> height]

\* A failed Map.get / optional chain yields undefined; handles are 1..Len(device).
Undefined == 0

VARIABLES
    device,          \* every GPU object the device created: [kind, label, descriptor, data, destroyed]
    sharedBuffers,   \* Map<String,GPUBuffer>: label -> handle (index into device)
    sharedTextures,  \* Map<String,GPUTexture>
    pc,              \* position inside a registry call of Spec
    cur,             \* the call in progress: [label, handle]
    lastCall,        \* the outcome of the last completed registry call
    log,             \* per kind and label, the last completed create/destroy
    scene,           \* Scene.entities, in insertion order
    viewport,        \* [width, height]
    passes,          \* Renderer.passes: [name, input, output]
    fpc,             \* position inside BasicRenderer.render
    frame,           \* frames started
    executed,        \* passes whose render ran in the current frame
    built,           \* the arrays createMeshBuffer computed
    drawParameters,  \* TrianglePass.drawParameters
    drawCalls,       \* drawIndexed calls of the last TrianglePass.render
    error,           \* the error that aborted the frame, or "none"
    presented,       \* handle of the texture drawn to the viewport, or Undefined
    navigatorGpu,    \* navigator.gpu is there
    webgpus          \* the WebGPU instances of initializeInstance calls

registryVars == <<device, sharedBuffers, sharedTextures>>
callVars == <<pc, cur, lastCall, log>>
frameVars == <<scene, viewport, passes, fpc, frame, executed, built,
               drawParameters, drawCalls, error, presented>>
initVars == <<navigatorGpu, webgpus>>
vars == <<device, sharedBuffers, sharedTextures, pc, cur, lastCall, log,
          scene, viewport, passes, fpc, frame, executed, built,
          drawParameters, drawCalls, error, presented, navigatorGpu, webgpus>>

\* ------------------------------------------------------------- JS Map
EmptyMap == [x \in {} |-> Undefined]
MapGet(m, k) == IF k \in DOMAIN m THEN m[k] ELSE Undefined
MapSet(m, k, v) == [x \in (DOMAIN m) \cup {k} |-> IF x = k THEN v ELSE m[x]]
MapDelete(m, k) == [x \in (DOMAIN m) \ {k} |-> m[x]]

\* ------------------------------------------------------------- GPU device
\* device.createBuffer / device.createTexture: a fresh live object.
deviceCreate(dev, kind, label, descriptor) ==
    Append(dev, [kind |-> kind, label |-> label, descriptor |-> descriptor,
                 data |-> <<>>, destroyed |-> FALSE])
\* GPUBuffer.destroy() / GPUTexture.destroy()
gpuDestroy(dev, h) == [dev EXCEPT ![h].destroyed = TRUE]
\* `x?.destroy()`: destroys x unless it is undefined.
optDestroy(dev, h) == IF h # Undefined THEN gpuDestroy(dev, h) ELSE dev
\* device.queue.writeBuffer(buffer, 0, data)
writeBuffer(dev, h, data) == [dev EXCEPT ![h].data = data]

Live(h) == h \in 1..Len(device) /\ ~device[h].destroyed

\* ------------------------------------------------------------- registry
\* createBuffer, statement by statement.
createBufferNew(dev, descriptor, label) == deviceCreate(dev, "buffer", label, descriptor)
\* Mutant: the replaced buffer is not destroyed (`?.destroy` without the call).
createBufferKillOld_Skipped(dev, bufs, label) == dev
createBufferKillOld(dev, bufs, label) == optDestroy(dev, MapGet(bufs, label))
createBufferSet(bufs, label, buffer) == MapSet(bufs, label, buffer)

createTextureNew(dev, descriptor, label) == deviceCreate(dev, "texture", label, descriptor)
createTextureKillOld(dev, texs, label) == optDestroy(dev, MapGet(texs, label))
createTextureSet(texs, label, texture) == MapSet(texs, label, texture)

\* destroyBuffer: `this.sharedBuffers.get(label)?.destroy;` reads the method
\* and does not call it, so the device is left as it was.
destroyBufferDevice(dev, bufs, label) == dev
destroyBufferMap(bufs, label) == MapDelete(bufs, label)

\* destroyTexture: `this.sharedTextures.get(label)?.destroy();`
destroyTextureDevice(dev, texs, label) == optDestroy(dev, MapGet(texs, label))
destroyTextureMap(texs, label) == MapDelete(texs, label)

\* getBuffer / getTexture: the handle, or a thrown Error.
Returned(h) == [threw |-> FALSE, value |-> h]
Thrown == [threw |-> TRUE, value |-> Undefined]
\* Mutant: the map lookup is returned as it is, undefined included.
getBuffer_NoThrow(bufs, label) == Returned(MapGet(bufs, label))
getBuffer(bufs, label) ==
    LET buffer == MapGet(bufs, label)
    IN  IF buffer # Undefined THEN Returned(buffer) ELSE Thrown
getTexture(texs, label) ==
    LET texture == MapGet(texs, label)
    IN  IF texture # Undefined THEN Returned(texture) ELSE Thrown

\* The registry as one value, for calls made in a single step.
Registry(dev, bufs, texs) ==
    [device |-> dev, sharedBuffers |-> bufs, sharedTextures |-> texs]

\* createBuffer as a whole; the handle it returns is Len(R.device) + 1.
createBuffer(R, descriptor, label) ==
    LET created == createBufferNew(R.device, descriptor, label)
        buffer == Len(created)
    IN  Registry(createBufferKillOld(created, R.sharedBuffers, label),
                 createBufferSet(R.sharedBuffers, label, buffer),
                 R.sharedTextures)

createTexture(R, descriptor, label) ==
    LET created == createTextureNew(R.device, descriptor, label)
        texture == Len(created)
    IN  Registry(createTextureKillOld(created, R.sharedTextures, label),
                 R.sharedBuffers,
                 createTextureSet(R.sharedTextures, label, texture))

\* Renderer.createBuffer / createTexture / getBuffer / getTexture: the
\* Renderer forwards to the registry it owns (spec 2 and 4.1).
rendererCreateBuffer(R, descriptor, label) == createBuffer(R, descriptor, label)
rendererCreateTexture(R, descriptor, label) == createTexture(R, descriptor, label)
rendererGetBuffer(R, label) == getBuffer(R.sharedBuffers, label)
rendererGetTexture(R, label) == getTexture(R.sharedTextures, label)

\* ------------------------------------------------------------- scene
Meshes == {"A", "B"}
\* Floats of one interleaved vertex: arrayStride 32 bytes / 4.
FloatsPerVertex == 8
\* Mesh A has 4 vertices and 6 indices, mesh B 3 vertices and 3 indices.
VertexCount(mesh) == IF mesh = "A" THEN 4 ELSE 3
vertexBuffer(mesh) ==
    [i \in 1..(FloatsPerVertex * VertexCount(mesh)) |->
        (IF mesh = "A" THEN 1000 ELSE 2000) + i]
elementBuffer(mesh) == IF mesh = "A" THEN <<0, 1, 2, 2, 3, 0>> ELSE <<0, 1, 2>>

\* An entity: a MeshInstance of a mesh, or some other Entity (mesh "none").
\* id is scene.getId(entity): scene-unique, 0 .. entity count - 1 (spec 6, 9).
\* t tags the entity's own world transform.
isMeshInstance(e) == e.mesh # "none"
getWorldTransform(e) == [i \in 1..FloatsPerMatrix |-> 100 * e.t + i]
getId(e) == e.id

\* Ids in insertion order, and in the reverse of it.
IdAssignments(n) == {[i \in 1..n |-> i - 1], [i \in 1..n |-> n - i]}
ScenesOfSize(n) ==
    {[i \in 1..n |-> [mesh |-> ms[i], id |-> ids[i], t |-> i]] :
        ms \in [1..n -> Meshes \cup {"none"}], ids \in IdAssignments(n)}
Scenes == UNION {ScenesOfSize(n) : n \in 0..MaxEntities}

\* ------------------------------------------------------------- typed arrays
Zeros(n) == [i \in 1..n |-> 0]
\* TypedArray.set(source, offset); every call made here fits the target.
TypedArraySet(target, source, offset) ==
    [i \in 1..Len(target) |->
        IF i > offset /\ i <= offset + Len(source) THEN source[i - offset]
        ELSE target[i]]
byteLength(array) == BytesPerElement * Len(array)
MaxOf(a, b) == IF a >= b THEN a ELSE b

\* ------------------------------------------------------------- createMeshBuffer
\* Position of the mesh among the keys of `instances`, 0 when absent.
InstanceIndex(instances, mesh) ==
    IF \E i \in 1..Len(instances) : instances[i].mesh = mesh
    THEN CHOOSE i \in 1..Len(instances) : instances[i].mesh = mesh
    ELSE 0

\* One turn of scene.entities.forEach.
ScanEntity(st, object) ==
    IF ~isMeshInstance(object) THEN st
    ELSE
        LET mesh == object.mesh
            count == InstanceIndex(st.instances, mesh)
            transformed == TypedArraySet(st.transformArray,
                                         getWorldTransform(object), getId(object))
        IN  IF count = 0
            THEN [vertexSize |-> st.vertexSize + Len(vertexBuffer(mesh)),
                  indexSize |-> st.indexSize + Len(elementBuffer(mesh)),
                  transformArray |-> transformed,
                  instances |-> Append(st.instances,
                        [mesh |-> mesh, count |-> 1, ids |-> <<getId(object)>>])]
            ELSE [st EXCEPT !.transformArray = transformed,
                            !.instances[count].count = @ + 1]

RECURSIVE ScanEntities(_, _, _)
ScanEntities(st, entities, i) ==
    IF i > Len(entities) THEN st
    ELSE ScanEntities(ScanEntity(st, entities[i]), entities, i + 1)

\* One turn of instances.forEach.
PlaceMesh(st, value) ==
    LET mesh == value.mesh
    IN  [vertexArray |-> TypedArraySet(st.vertexArray, vertexBuffer(mesh), st.vertexOffset),
         indexArray |-> TypedArraySet(st.indexArray, elementBuffer(mesh), st.indexOffset),
         idArray |-> TypedArraySet(st.idArray, value.ids, st.objectOffset),
         drawParameters |->
             TypedArraySet(st.drawParameters,
                           <<Len(vertexBuffer(mesh)), value.count, st.indexOffset,
                             0, st.objectOffset>>,
                           0),
         vertexOffset |-> st.vertexOffset + Len(vertexBuffer(mesh)),
         indexOffset |-> st.indexOffset + Len(elementBuffer(mesh)),
         objectOffset |-> st.objectOffset + value.count]

RECURSIVE PlaceMeshes(_, _, _)
PlaceMeshes(st, instances, i) ==
    IF i > Len(instances) THEN st
    ELSE PlaceMeshes(PlaceMesh(st, instances[i]), instances, i + 1)

\* The arrays createMeshBuffer computes for a scene.
MeshArrays(entities) ==
    LET scanned == ScanEntities(
                       [vertexSize |-> 0, indexSize |-> 0,
                        transformArray |-> Zeros(Len(entities) * FloatsPerMatrix),
                        instances |-> <<>>],
                       entities, 1)
        placed == PlaceMeshes(
                       [vertexArray |-> Zeros(scanned.vertexSize),
                        indexArray |-> Zeros(scanned.indexSize),
                        idArray |-> Zeros(Len(entities)),
                        drawParameters |-> Zeros(Len(scanned.instances) * FieldsPerDraw),
                        vertexOffset |-> 0, indexOffset |-> 0, objectOffset |-> 0],
                       scanned.instances, 1)
    IN  [vertexArray |-> placed.vertexArray,
         indexArray |-> placed.indexArray,
         transformArray |-> scanned.transformArray,
         idArray |-> placed.idArray,
         drawParameters |-> placed.drawParameters]

\* Size of a buffer created for an array: Math.max(array.byteLength, min).
\* Mutant: the minimum allocation is not applied.
bufferSize_NoMinimum(array) == byteLength(array)
bufferSize(array) == MaxOf(byteLength(array), minBuffersize)

\* The four createBuffer calls and the four writeBuffer calls.
UploadMeshArrays(R, arrays) ==
    LET vertexBuffer_ == Len(R.device) + 1
        indexBuffer == Len(R.device) + 2
        transformBuffer == Len(R.device) + 3
        objectIndexBuffer == Len(R.device) + 4
        R1 == rendererCreateBuffer(R, BufferDescriptor(bufferSize(arrays.vertexArray)), "vertex")
        R2 == rendererCreateBuffer(R1, BufferDescriptor(bufferSize(arrays.indexArray)), "index")
        R3 == rendererCreateBuffer(R2, BufferDescriptor(bufferSize(arrays.transformArray)), "transform")
        R4 == rendererCreateBuffer(R3, BufferDescriptor(bufferSize(arrays.idArray)), "object-index")
        d1 == writeBuffer(R4.device, vertexBuffer_, arrays.vertexArray)
        d2 == writeBuffer(d1, indexBuffer, arrays.indexArray)
        d3 == writeBuffer(d2, transformBuffer, arrays.drawParameters)
        d4 == writeBuffer(d3, objectIndexBuffer, arrays.idArray)
    IN  Registry(d4, R4.sharedBuffers, R4.sharedTextures)

\* createMeshBuffer as a whole: the registry after it.
createMeshBuffer(R, entities) == UploadMeshArrays(R, MeshArrays(entities))

\* ------------------------------------------------- Spec: registry calls
NoCall == [op |-> "none", kind |-> "none", label |-> "none",
           threw |-> FALSE, value |-> Undefined]
NoCur == [label |-> "none", handle |-> Undefined]
NoBuilt == [vertexArray |-> <<>>, indexArray |-> <<>>, transformArray |-> <<>>,
            idArray |-> <<>>, drawParameters |-> <<>>]

\* A WebGPU instance: where its initializeInstance call stands, its adapter
\* and device fields, and whether init created the two maps.
NewInstance ==
    [pc |-> "idle", adapter |-> "undefined", device |-> "undefined",
     maps |-> FALSE, logged |-> FALSE]
\* An instance initializeInstance returned with adapter and device found.
ReadyInstance ==
    [pc |-> "resolved", adapter |-> "adapter", device |-> "device",
     maps |-> TRUE, logged |-> FALSE]
\* The registry and the renderer work on instances that were initialized.
InstancesReady ==
    /\ navigatorGpu = TRUE
    /\ webgpus = [i \in 1..MaxInstances |-> ReadyInstance]

\* No frame is being rendered.
FrameIdle ==
    /\ scene = <<>>
    /\ viewport = [width |-> 1, height |-> 1]
    /\ passes = <<>>
    /\ fpc = "idle"
    /\ frame = 0
    /\ executed = <<>>
    /\ built = NoBuilt
    /\ drawParameters = <<>>
    /\ drawCalls = <<>>
    /\ error = "none"
    /\ presented = Undefined

\* WebGPU.init: both maps are created empty.
RegistryInit ==
    /\ device = <<>>
    /\ sharedBuffers = EmptyMap
    /\ sharedTextures = EmptyMap
    /\ pc = "idle"
    /\ cur = NoCur
    /\ lastCall = NoCall
    /\ log = [k \in Kinds |-> [l \in Labels |-> "none"]]

Init == RegistryInit /\ FrameIdle /\ InstancesReady

\* createBuffer line 1-2: descriptor.label = label; device.createBuffer(descriptor)
CreateBufferBegin(label, size) ==
    /\ pc = "idle"
    /\ Len(device) < MaxResources
    /\ device' = createBufferNew(device, BufferDescriptor(size), label)
    /\ cur' = [label |-> label, handle |-> Len(device) + 1]
    /\ pc' = "createBuffer:destroy"
    /\ UNCHANGED <<sharedBuffers, sharedTextures, lastCall, log>>
    /\ UNCHANGED frameVars
    /\ UNCHANGED initVars

\* createBuffer line 3: this.sharedBuffers.get(label)?.destroy()
CreateBufferKill ==
    /\ pc = "createBuffer:destroy"
    /\ device' = createBufferKillOld(device, sharedBuffers, cur.label)
    /\ pc' = "createBuffer:set"
    /\ UNCHANGED <<sharedBuffers, sharedTextures, cur, lastCall, log>>
    /\ UNCHANGED frameVars
    /\ UNCHANGED initVars

\* createBuffer line 4-5: this.sharedBuffers.set(label, buffer); return buffer
CreateBufferInstall ==
    /\ pc = "createBuffer:set"
    /\ sharedBuffers' = createBufferSet(sharedBuffers, cur.label, cur.handle)
    /\ lastCall' = [op |-> "create", kind |-> "buffer", label |-> cur.label,
                    threw |-> FALSE, value |-> cur.handle]
    /\ log' = [log EXCEPT !["buffer"][cur.label] = "create"]
    /\ pc' = "idle"
    /\ cur' = NoCur
    /\ UNCHANGED <<device, sharedTextures>>
    /\ UNCHANGED frameVars
    /\ UNCHANGED initVars

CreateTextureBegin(label, size) ==
    /\ pc = "idle"
    /\ Len(device) < MaxResources
    /\ device' = createTextureNew(device, TextureDescriptor(size, size), label)
    /\ cur' = [label |-> label, handle |-> Len(device) + 1]
    /\ pc' = "createTexture:destroy"
    /\ UNCHANGED <<sharedBuffers, sharedTextures, lastCall, log>>
    /\ UNCHANGED frameVars
    /\ UNCHANGED initVars

CreateTextureKill ==
    /\ pc = "createTexture:destroy"
    /\ device' = createTextureKillOld(device, sharedTextures, cur.label)
    /\ pc' = "createTexture:set"
    /\ UNCHANGED <<sharedBuffers, sharedTextures, cur, lastCall, log>>
    /\ UNCHANGED frameVars
    /\ UNCHANGED initVars

CreateTextureInstall ==
    /\ pc = "createTexture:set"
    /\ sharedTextures' = createTextureSet(sharedTextures, cur.label, cur.handle)
    /\ lastCall' = [op |-> "create", kind |-> "texture", label |-> cur.label,
                    threw |-> FALSE, value |-> cur.handle]
    /\ log' = [log EXCEPT !["texture"][cur.label] = "create"]
    /\ pc' = "idle"
    /\ cur' = NoCur
    /\ UNCHANGED <<device, sharedBuffers>>
    /\ UNCHANGED frameVars
    /\ UNCHANGED initVars

DestroyBuffer(label) ==
    /\ pc = "idle"
    /\ device' = destroyBufferDevice(device, sharedBuffers, label)
    /\ sharedBuffers' = destroyBufferMap(sharedBuffers, label)
    /\ lastCall' = [op |-> "destroy", kind |-> "buffer", label |-> label,
                    threw |-> FALSE, value |-> MapGet(sharedBuffers, label)]
    /\ log' = [log EXCEPT !["buffer"][label] = "destroy"]
    /\ UNCHANGED <<sharedTextures, pc, cur>>
    /\ UNCHANGED frameVars
    /\ UNCHANGED initVars

DestroyTexture(label) ==
    /\ pc = "idle"
    /\ device' = destroyTextureDevice(device, sharedTextures, label)
    /\ sharedTextures' = destroyTextureMap(sharedTextures, label)
    /\ lastCall' = [op |-> "destroy", kind |-> "texture", label |-> label,
                    threw |-> FALSE, value |-> MapGet(sharedTextures, label)]
    /\ log' = [log EXCEPT !["texture"][label] = "destroy"]
    /\ UNCHANGED <<sharedBuffers, pc, cur>>
    /\ UNCHANGED frameVars
    /\ UNCHANGED initVars

GetBuffer(label) ==
    /\ pc = "idle"
    /\ lastCall' = [op |-> "get", kind |-> "buffer", label |-> label,
                    threw |-> getBuffer(sharedBuffers, label).threw,
                    value |-> getBuffer(sharedBuffers, label).value]
    /\ UNCHANGED <<device, sharedBuffers, sharedTextures, pc, cur, log>>
    /\ UNCHANGED frameVars
    /\ UNCHANGED initVars

GetTexture(label) ==
    /\ pc = "idle"
    /\ lastCall' = [op |-> "get", kind |-> "texture", label |-> label,
                    threw |-> getTexture(sharedTextures, label).threw,
                    value |-> getTexture(sharedTextures, label).value]
    /\ UNCHANGED <<device, sharedBuffers, sharedTextures, pc, cur, log>>
    /\ UNCHANGED frameVars
    /\ UNCHANGED initVars

Next ==
    \/ \E label \in Labels, size \in Sizes : CreateBufferBegin(label, size)
    \/ CreateBufferKill
    \/ CreateBufferInstall
    \/ \E label \in Labels, size \in Sizes : CreateTextureBegin(label, size)
    \/ CreateTextureKill
    \/ CreateTextureInstall
    \/ \E label \in Labels : DestroyBuffer(label)
    \/ \E label \in Labels : DestroyTexture(label)
    \/ \E label \in Labels : GetBuffer(label)
    \/ \E label \in Labels : GetTexture(label)

Spec == Init /\ [][Next]_vars

\* ------------------------------------------------- SpecFrame: BasicRenderer
Buf(label) == [label |-> label, resource |-> "buffer"]
Tex(label) == [label |-> label, resource |-> "texture"]

\* The input and output declarations of the TrianglePass constructor.
TrianglePassDecl ==
    [name |-> "TrianglePass",
     input |-> {Buf("camera"), Buf("vertex"), Buf("index"), Buf("transform"),
                Tex("color"), Tex("depth"), Buf("object-index")},
     output |-> {Tex("color"), Tex("depth"), Tex("normal"), Tex("object-index")}]

\* The declarations of the two overlay passes are made in their own
\* constructors: each is drawn from two declarations an overlay would make.
CoordinatePlanePassDecls ==
    {[name |-> "CoordinatePlanePass",
      input |-> {Buf("camera"), Tex("color"), Tex("depth")},
      output |-> {Tex("color")}],
     [name |-> "CoordinatePlanePass",
      input |-> {Buf("camera")},
      output |-> {Tex("color"), Tex("depth")}]}
SelectionOutlinePassDecls ==
    {[name |-> "SelectionOutlinePass",
      input |-> {Tex("object-index"), Tex("color")},
      output |-> {Tex("color")}],
     [name |-> "SelectionOutlinePass",
      input |-> {Tex("object-index")},
      output |-> {Tex("selection")}]}

\* BasicRenderer constructor: the pass list, in construction order.
PassLists ==
    {<<TrianglePassDecl, c, o>> :
        c \in CoordinatePlanePassDecls, o \in SelectionOutlinePassDecls}

Widths == {1, 2}
Heights == {1}

\* Bytes of the Camera uniform: two 4x4 float matrices, width and height.
cameraBufferSize == 2 * FloatsPerMatrix * BytesPerElement + 2 * BytesPerElement

\* The registry after the TrianglePass constructor: three 32-byte buffers.
ConstructedRegistry ==
    LET R0 == Registry(<<>>, EmptyMap, EmptyMap)
        R1 == rendererCreateBuffer(R0, BufferDescriptor(32), "vertex")
        R2 == rendererCreateBuffer(R1, BufferDescriptor(32), "index")
    IN  rendererCreateBuffer(R2, BufferDescriptor(32), "transform")

InitFrame ==
    /\ device = ConstructedRegistry.device
    /\ sharedBuffers = ConstructedRegistry.sharedBuffers
    /\ sharedTextures = ConstructedRegistry.sharedTextures
    /\ pc = "idle"
    /\ cur = NoCur
    /\ lastCall = NoCall
    /\ log = [k \in Kinds |-> [l \in Labels |-> "none"]]
    /\ scene \in Scenes
    /\ viewport \in {[width |-> 1, height |-> h] : h \in Heights}
    /\ passes \in PassLists
    /\ fpc = "idle"
    /\ frame = 0
    /\ executed = <<>>
    /\ built = NoBuilt
    /\ drawParameters = <<>>
    /\ drawCalls = <<>>
    /\ error = "none"
    /\ presented = Undefined
    /\ InstancesReady

CurrentRegistry == Registry(device, sharedBuffers, sharedTextures)
SetRegistry(R) ==
    /\ device' = R.device
    /\ sharedBuffers' = R.sharedBuffers
    /\ sharedTextures' = R.sharedTextures

\* Between frames the viewport may be resized.
Resize(width) ==
    /\ fpc \in {"idle", "done"}
    /\ frame < MaxFrames
    /\ width # viewport.width
    /\ viewport' = [viewport EXCEPT !.width = width]
    /\ UNCHANGED <<device, sharedBuffers, sharedTextures, pc, cur, lastCall, log>>
    /\ UNCHANGED initVars
    /\ UNCHANGED <<scene, passes, fpc, frame, executed, built, drawParameters,
                   drawCalls, error, presented>>

\* BasicRenderer.render, first part: the four shared textures.
RenderTextures ==
    /\ fpc \in {"idle", "done"}
    /\ frame < MaxFrames
    /\ LET size == TextureDescriptor(viewport.width, viewport.height)
           R1 == rendererCreateTexture(CurrentRegistry, size, "color")
           R2 == rendererCreateTexture(R1, size, "depth")
           R3 == rendererCreateTexture(R2, size, "object-index")
           R4 == rendererCreateTexture(R3, size, "normal")
       IN  SetRegistry(R4)
    /\ frame' = frame + 1
    /\ executed' = <<>>
    /\ fpc' = "camera"
    /\ UNCHANGED <<pc, cur, lastCall, log>>
    /\ UNCHANGED initVars
    /\ UNCHANGED <<scene, viewport, passes, built, drawParameters, drawCalls,
                   error, presented>>

\* Renderer.updateCameraData: the camera uniform buffer is (re)created and
\* filled with the viewport's width and height (spec 4.4 step 2).
updateCameraData(R, vp) ==
    LET R1 == rendererCreateBuffer(R, BufferDescriptor(cameraBufferSize), "camera")
    IN  Registry(writeBuffer(R1.device, Len(R1.device), <<vp.width, vp.height>>),
                 R1.sharedBuffers, R1.sharedTextures)

RenderCamera ==
    /\ fpc = "camera"
    /\ SetRegistry(updateCameraData(CurrentRegistry, viewport))
    /\ fpc' = "passes"
    /\ UNCHANGED <<pc, cur, lastCall, log>>
    /\ UNCHANGED initVars
    /\ UNCHANGED <<scene, viewport, passes, frame, executed, built, drawParameters,
                   drawCalls, error, presented>>

\* The pass this.passes.forEach is about to render.
\* Mutant: the list is walked from its end.
NextPass_Reversed == passes[Len(passes) - Len(executed)]
NextPass == passes[Len(executed) + 1]
AfterPass == IF Len(executed) + 1 = Len(passes) THEN "present" ELSE "passes"

\* The three multisampled attachments TrianglePass.render creates on the
\* device and destroys before it returns.
Multisampled(dev, vp) ==
    LET size == TextureDescriptor(vp.width, vp.height)
        d1 == deviceCreate(dev, "texture", "multisample-color", size)
        d2 == deviceCreate(d1, "texture", "multisample-depth", size)
        d3 == deviceCreate(d2, "texture", "multisample-normal", size)
    IN  gpuDestroy(gpuDestroy(gpuDestroy(d3, Len(d1)), Len(d2)), Len(d3))

\* The drawIndexed calls of the loop `for (i = 0; i < length; i += 5)`.
DrawLoop(parameters) ==
    [r \in 1..(Len(parameters) \div FieldsPerDraw) |->
        SubSeq(parameters, FieldsPerDraw * (r - 1) + 1, FieldsPerDraw * r)]

\* The nine lookups at the head of TrianglePass.render.
TrianglePassLookups(R) ==
    {rendererGetTexture(R, "color"), rendererGetTexture(R, "depth"),
     rendererGetTexture(R, "object-index"), rendererGetTexture(R, "normal"),
     rendererGetBuffer(R, "object-index"), rendererGetBuffer(R, "camera"),
     rendererGetBuffer(R, "vertex"), rendererGetBuffer(R, "index"),
     rendererGetBuffer(R, "transform")}

\* TrianglePass.render
RenderTrianglePass ==
    /\ fpc = "passes"
    /\ NextPass.name = "TrianglePass"
    /\ LET arrays == MeshArrays(scene)
           R == createMeshBuffer(CurrentRegistry, scene)
       IN  /\ built' = arrays
           /\ drawParameters' = arrays.drawParameters
           /\ IF \E r \in TrianglePassLookups(R) : r.threw
              THEN /\ SetRegistry(R)
                   /\ error' = "ResourceNotFound"
                   /\ fpc' = "aborted"
                   /\ UNCHANGED <<executed, drawCalls>>
              ELSE /\ SetRegistry(Registry(Multisampled(R.device, viewport),
                                           R.sharedBuffers, R.sharedTextures))
                   /\ drawCalls' = DrawLoop(arrays.drawParameters)
                   /\ executed' = Append(executed, NextPass.name)
                   /\ fpc' = AfterPass
                   /\ UNCHANGED error
    /\ UNCHANGED <<pc, cur, lastCall, log>>
    /\ UNCHANGED initVars
    /\ UNCHANGED <<scene, viewport, passes, frame, presented>>

\* CoordinatePlanePass.render / SelectionOutlinePass.render: peripheral
\* passes (spec 4.2); they run and leave the registry alone.
RenderOverlayPass ==
    /\ fpc = "passes"
    /\ NextPass.name # "TrianglePass"
    /\ executed' = Append(executed, NextPass.name)
    /\ fpc' = AfterPass
    /\ UNCHANGED <<device, sharedBuffers, sharedTextures, pc, cur, lastCall, log>>
    /\ UNCHANGED initVars
    /\ UNCHANGED <<scene, viewport, passes, frame, built, drawParameters,
                   drawCalls, error, presented>>

\* BasicRenderer.render, last part: viewport.drawTexture(getTexture("color"))
RenderPresent ==
    /\ fpc = "present"
    /\ LET color == rendererGetTexture(CurrentRegistry, "color")
       IN  IF color.threw
           THEN /\ error' = "ResourceNotFound"
                /\ fpc' = "aborted"
                /\ UNCHANGED presented
           ELSE /\ presented' = color.value
                /\ fpc' = "done"
                /\ UNCHANGED error
    /\ UNCHANGED <<device, sharedBuffers, sharedTextures, pc, cur, lastCall, log>>
    /\ UNCHANGED initVars
    /\ UNCHANGED <<scene, viewport, passes, frame, executed, built, drawParameters,
                   drawCalls>>

NextFrame ==
    \/ \E width \in Widths : Resize(width)
    \/ RenderTextures
    \/ RenderCamera
    \/ RenderTrianglePass
    \/ RenderOverlayPass
    \/ RenderPresent

SpecFrame == InitFrame /\ [][NextFrame]_vars

\* ------------------------------------------------- claims on the registry
Shared(kind) == IF kind = "buffer" THEN sharedBuffers ELSE sharedTextures
\* Every GPU object created through the registry with this kind and label.
Created(kind, label) ==
    {h \in 1..Len(device) : device[h].kind = kind /\ device[h].label = label}
Max(S) == CHOOSE x \in S : \A y \in S : y <= x

\* C1 (as claimed): a get that returns hands out the resource of the most
\* recent create under that label and kind, and when a create returns every
\* resource an earlier create installed under that label has been destroyed.
C1_GetReturnsLatestPreviousReleased ==
    pc = "idle" =>
        /\ (lastCall.op = "get" /\ ~lastCall.threw) =>
              lastCall.value = Max(Created(lastCall.kind, lastCall.label))
        /\ lastCall.op = "create" =>
              \A h \in Created(lastCall.kind, lastCall.label) :
                  h # lastCall.value => device[h].destroyed

\* The handles the registry holds under a label for one kind, the one a create
\* is about to install included.
Held(kind, label) ==
    ({MapGet(Shared(kind), label)} \cup
        (IF cur.label = label /\
            pc = (IF kind = "buffer" THEN "createBuffer:set" ELSE "createTexture:set")
         THEN {cur.handle} ELSE {})) \ {Undefined}

\* C2 (as claimed): in every state a label has at most one live resource in
\* the registry, buffers and textures counted together.
C2_OneLiveResourcePerLabel ==
    \A label \in Labels :
        Cardinality({h \in {MapGet(sharedBuffers, label),
                            MapGet(sharedTextures, label)} : Live(h)}) <= 1

\* C2 (amended): in every state, also inside a create call, a label has at
\* most one live resource of each kind in the registry; the replaced resource
\* is destroyed before the new one is installed.
C2_OneLiveResourcePerLabelAndKind ==
    \A kind \in Kinds, label \in Labels :
        Cardinality({h \in Held(kind, label) : Live(h)}) <= 1

\* A buffer is being installed over an earlier buffer of the same label while
\* a texture is live under that label too.
C2_Witness ==
    /\ pc = "createBuffer:set"
    /\ MapGet(sharedBuffers, cur.label) # Undefined
    /\ device[MapGet(sharedBuffers, cur.label)].destroyed
    /\ Live(cur.handle)
    /\ Live(MapGet(sharedTextures, cur.label))

\* C3: a get of a label throws (and returns no value) exactly when nothing is
\* registered under it: no create of it has completed yet, or a destroy of it
\* was the last create/destroy of it; otherwise it returns a handle.
C3_GetOfUnregisteredLabelThrows ==
    lastCall.op = "get" =>
        /\ lastCall.threw <=> log[lastCall.kind][lastCall.label] \in {"none", "destroy"}
        /\ ~lastCall.threw => lastCall.value \in 1..Len(device)

\* A get threw for a label that had been created and then destroyed.
C3_Witness ==
    /\ lastCall.op = "get"
    /\ lastCall.threw
    /\ log[lastCall.kind][lastCall.label] = "destroy"
    /\ Created(lastCall.kind, lastCall.label) # {}

\* C4 (as claimed): destroy removes the label and destroys the resource that
\* was registered under it, and between calls every live GPU object created
\* through the registry is the one registered under its label.
C4_DestroyReleasesResource ==
    pc = "idle" =>
        /\ lastCall.op = "destroy" =>
              /\ lastCall.label \notin DOMAIN Shared(lastCall.kind)
              /\ lastCall.value # Undefined => device[lastCall.value].destroyed
        /\ \A h \in 1..Len(device) :
              ~device[h].destroyed =>
                  MapGet(Shared(device[h].kind), device[h].label) = h

\* ------------------------------------------------- claims on the batcher
\* TrianglePass.render has run in the current frame.
TrianglePassRan == \E i \in 1..Len(executed) : executed[i] = "TrianglePass"

MeshInstances(entities) == {i \in 1..Len(entities) : isMeshInstance(entities[i])}
InstancesOf(entities, mesh) == {i \in 1..Len(entities) : entities[i].mesh = mesh}

\* The distinct meshes of a scene in first-encounter order.
RECURSIVE EncounterOrder(_, _)
EncounterOrder(entities, i) ==
    IF i = 0 THEN <<>>
    ELSE LET before == EncounterOrder(entities, i - 1)
         IN  IF isMeshInstance(entities[i]) /\
                InstancesOf(SubSeq(entities, 1, i - 1), entities[i].mesh) = {}
             THEN Append(before, entities[i].mesh)
             ELSE before
MeshOrder == EncounterOrder(scene, Len(scene))

RECURSIVE SumTo(_, _)
SumTo(f, n) == IF n = 0 THEN 0 ELSE f[n] + SumTo(f, n - 1)

\* Rows of the draw-parameter table createMeshBuffer built.
Rows == DrawLoop(built.drawParameters)
IndexCounts == [r \in 1..Len(MeshOrder) |-> Len(elementBuffer(MeshOrder[r]))]
InstanceCounts == [r \in 1..Len(MeshOrder) |-> Cardinality(InstancesOf(scene, MeshOrder[r]))]

\* C5 (as claimed): the table has k rows of 5 fields for k distinct meshes,
\* the instance counts add up to the number n of mesh instances, and every
\* row stays inside the index array and the object-index array.
C5_BatchingInvariant ==
    TrianglePassRan =>
        /\ Len(built.drawParameters) = FieldsPerDraw * Len(MeshOrder)
        /\ SumTo([r \in 1..Len(Rows) |-> Rows[r][2]], Len(Rows))
              = Cardinality(MeshInstances(scene))
        /\ \A r \in 1..Len(Rows) :
              /\ Rows[r][3] + Rows[r][1] <= Len(built.indexArray)
              /\ Rows[r][5] + Rows[r][2] <= Len(built.idArray)

\* C6 (as claimed): row i of the table is {index count of the i-th distinct
\* mesh, its number of instances, the index counts before it summed, 0, the
\* instance counts before it summed}.
C6_DrawRows ==
    TrianglePassRan =>
        /\ Len(Rows) = Len(MeshOrder)
        /\ \A r \in 1..Len(MeshOrder) :
              Rows[r] = <<IndexCounts[r], InstanceCounts[r], SumTo(IndexCounts, r - 1),
                          0, SumTo(InstanceCounts, r - 1)>>

\* C7 (as claimed): the object-index array has one entry per mesh instance,
\* and the entries of each row, firstInstance .. firstInstance +
\* instanceCount - 1, are the ids of exactly the entities using the row's mesh.
C7_ObjectIndexDense ==
    TrianglePassRan =>
        /\ Len(built.idArray) = Cardinality(MeshInstances(scene))
        /\ Len(Rows) = Len(MeshOrder)
        /\ \A r \in 1..Len(MeshOrder) :
              /\ Rows[r][2] = InstanceCounts[r]
              /\ Rows[r][5] + Rows[r][2] <= Len(built.idArray)
              /\ {built.idArray[Rows[r][5] + j] : j \in 1..Rows[r][2]}
                    = {getId(scene[i]) : i \in InstancesOf(scene, MeshOrder[r])}

\* C8 (as claimed): the transform array has 16 entries per entity; the 16
\* entries at 16 * id hold the world transform of the mesh instance with that
\* id, and are zero for an id that is no mesh instance.
C8_SparseTransforms ==
    TrianglePassRan =>
        /\ Len(built.transformArray) = FloatsPerMatrix * Len(scene)
        /\ \A i \in 1..Len(scene) :
              SubSeq(built.transformArray,
                     FloatsPerMatrix * getId(scene[i]) + 1,
                     FloatsPerMatrix * getId(scene[i]) + FloatsPerMatrix)
                = (IF isMeshInstance(scene[i]) THEN getWorldTransform(scene[i])
                   ELSE Zeros(FloatsPerMatrix))

\* Size of the buffer registered under a label, 0 when there is none.
RegisteredSize(label) ==
    IF MapGet(sharedBuffers, label) = Undefined THEN 0
    ELSE device[MapGet(sharedBuffers, label)].descriptor.size

NothingDrawn ==
    /\ Len(drawParameters) = 0
    /\ drawCalls = <<>>
    /\ error = "none"
    /\ fpc # "aborted"

PassIds == 1..Len(passes)
\* Pass a produces a label that another pass b consumes.
Edge(a, b) ==
    /\ a # b
    /\ \E o \in passes[a].output, i \in passes[b].input : o.label = i.label
Paths == UNION {[1..m -> PassIds] : m \in 2..(Len(passes) + 1)}
HasCycle ==
    \E path \in Paths :
        /\ path[1] = path[Len(path)]
        /\ \A s \in 1..(Len(path) - 1) : Edge(path[s], path[s + 1])

\* Kahn's algorithm, the first declared pass among the ready ones first.
RECURSIVE Kahn(_)
Kahn(done) ==
    LET emitted == {done[i] : i \in 1..Len(done)}
        ready == {p \in PassIds \ emitted : \A q \in PassIds : Edge(q, p) => q \in emitted}
    IN  IF ready = {} THEN done
        ELSE Kahn(Append(done, CHOOSE p \in ready : \A q \in ready : p <= q))
TopologicalOrder == [i \in 1..Len(Kahn(<<>>)) |-> passes[Kahn(<<>>)[i]].name]

\* C10 (as claimed): the passes run in the topological order of the declared
\* dependency graph, ties by declaration order; with a cycle in the graph no
\* pass runs and the frame ends in CycleDetected.
C10_TopologicalPassOrder ==
    IF HasCycle
    THEN /\ executed = <<>>
         /\ fpc \in {"present", "done"} => error = "CycleDetected"
    ELSE /\ Len(executed) <= Len(TopologicalOrder)
         /\ executed = SubSeq(TopologicalOrder, 1, Len(executed))

\* ------------------------------------------------- SpecInit: WebGPU.init
\* What navigator.gpu.requestAdapter() / adapter.requestDevice() may settle
\* to: the object, null, or a rejection.
Outcomes == {"found", "null", "rejected"}

InitStart ==
    /\ RegistryInit
    /\ FrameIdle
    /\ navigatorGpu \in BOOLEAN
    /\ webgpus = [i \in 1..MaxInstances |-> NewInstance]

InitUnchanged ==
    /\ UNCHANGED <<device, sharedBuffers, sharedTextures, pc, cur, lastCall, log>>
    /\ UNCHANGED frameVars
    /\ UNCHANGED navigatorGpu

\* The catch block and what follows the try statement: the error is logged,
\* the two maps are created and init returns.
caughtAndFinished(w) == [w EXCEPT !.logged = TRUE, !.maps = TRUE, !.pc = "initDone"]

\* init up to `await navigator.gpu.requestAdapter()`, or its throw when
\* navigator.gpu is missing.
initBegin(w, gpu) ==
    IF ~gpu THEN [w EXCEPT !.pc = "initRejected"]
    ELSE [w EXCEPT !.pc = "awaitAdapter"]

\* init from the adapter's arrival up to `await this.adapter.requestDevice()`.
initAfterAdapter(w, outcome) ==
    IF outcome = "rejected" THEN caughtAndFinished(w)
    ELSE IF outcome = "null" THEN caughtAndFinished([w EXCEPT !.adapter = "null"])
    ELSE [w EXCEPT !.adapter = "adapter", !.pc = "awaitDevice"]

\* init from the device's arrival to its end.
initAfterDevice(w, outcome) ==
    IF outcome = "rejected" THEN caughtAndFinished(w)
    ELSE IF outcome = "null" THEN caughtAndFinished([w EXCEPT !.device = "null"])
    ELSE [w EXCEPT !.device = "device", !.maps = TRUE, !.pc = "initDone"]

\* initializeInstance after `await webgpu.init()`: the instance is returned,
\* or init's rejection is passed on.
initializeInstanceEnd(w) ==
    IF w.pc = "initRejected" THEN [w EXCEPT !.pc = "rejected"]
    ELSE [w EXCEPT !.pc = "resolved"]

InitializeInstance(i) ==
    /\ webgpus[i].pc = "idle"
    /\ webgpus' = [webgpus EXCEPT ![i] = initBegin(@, navigatorGpu)]
    /\ InitUnchanged

AdapterSettled(i, outcome) ==
    /\ webgpus[i].pc = "awaitAdapter"
    /\ webgpus' = [webgpus EXCEPT ![i] = initAfterAdapter(@, outcome)]
    /\ InitUnchanged

DeviceSettled(i, outcome) ==
    /\ webgpus[i].pc = "awaitDevice"
    /\ webgpus' = [webgpus EXCEPT ![i] = initAfterDevice(@, outcome)]
    /\ InitUnchanged

InitializeInstanceReturns(i) ==
    /\ webgpus[i].pc \in {"initDone", "initRejected"}
    /\ webgpus' = [webgpus EXCEPT ![i] = initializeInstanceEnd(@)]
    /\ InitUnchanged

NextInit ==
    \/ \E i \in 1..MaxInstances : InitializeInstance(i)
    \/ \E i \in 1..MaxInstances, outcome \in Outcomes : AdapterSettled(i, outcome)
    \/ \E i \in 1..MaxInstances, outcome \in Outcomes : DeviceSettled(i, outcome)
    \/ \E i \in 1..MaxInstances : InitializeInstanceReturns(i)

SpecInit == InitStart /\ [][NextInit]_vars

\* C11 (as claimed): when no adapter or no device could be obtained,
\* initializeInstance rejects: no instance with a missing device is handed to
\* the caller, and no registry is set up on such an instance.
C11_InitFailureIsFatal ==
    \A i \in 1..MaxInstances :
        /\ webgpus[i].pc = "resolved" => webgpus[i].device = "device"
        /\ webgpus[i].maps => webgpus[i].device = "device"
        /\ (webgpus[i].pc \in {"initDone", "initRejected"} /\ webgpus[i].device # "device")
              => webgpus[i].pc = "initRejected"

\* ------------------------------------------------- claims on the upload
\* What a buffer holds: a new GPUBuffer is zero-filled, and writeBuffer at
\* offset 0 replaces its first elements.
BufferContents(h) ==
    device[h].data \o Zeros(MaxOf(device[h].descriptor.size \div BytesPerElement
                                      - Len(device[h].data), 0))
\* The buffer registered under the label was created in this frame (after the
\* frame's camera buffer), at the size of the array, and begins with it.
RecreatedFor(label, array) ==
    LET h == MapGet(sharedBuffers, label)
    IN  /\ h # Undefined
        /\ Live(h)
        /\ h = Max(Created("buffer", label))
        /\ h > MapGet(sharedBuffers, "camera")
        /\ device[h].descriptor.size = MaxOf(byteLength(array), minBuffersize)
        /\ Len(device[h].data) <= Len(BufferContents(h))
        /\ SubSeq(BufferContents(h), 1, Len(array)) = array

\* C12 (as claimed): after createMeshBuffer ran in a frame, each of the four
\* registry buffers has been recreated at max(byte length of its array,
\* minimum allocation) and holds its own array: "vertex" the vertex array,
\* "index" the index array, "transform" the per-entity transform array and
\* "object-index" the instance-id array.
C12_BuffersHoldOwnArrays ==
    TrianglePassRan =>
        /\ RecreatedFor("vertex", built.vertexArray)
        /\ RecreatedFor("index", built.indexArray)
        /\ RecreatedFor("transform", built.transformArray)
        /\ RecreatedFor("object-index", built.idArray)

\* ------------------------------------------------- claims on the frame
FrameTextures == <<"color", "depth", "object-index", "normal">>
PassNames == [i \in 1..Len(passes) |-> passes[i].name]

\* The four shared textures of the running frame: registered, live, the
\* newest of their label, of the viewport's size, created in the order of the
\* code, and not yet shown on the viewport.
TexturesCreated ==
    \A i \in 1..Len(FrameTextures) :
        LET h == MapGet(sharedTextures, FrameTextures[i])
        IN  /\ h # Undefined
            /\ Live(h)
            /\ h = Max(Created("texture", FrameTextures[i]))
            /\ device[h].descriptor = TextureDescriptor(viewport.width, viewport.height)
            /\ i > 1 => MapGet(sharedTextures, FrameTextures[i - 1]) < h
            /\ presented # h

\* The camera buffer of the running frame: created after the frame's last
\* texture and filled from the viewport.
CameraUpdated ==
    LET c == MapGet(sharedBuffers, "camera")
    IN  /\ c # Undefined
        /\ Live(c)
        /\ c > MapGet(sharedTextures, "normal")
        /\ device[c].data = <<viewport.width, viewport.height>>

\* C13: within every BasicRenderer.render frame the four shared textures
\* color, depth, object-index and normal are created at the viewport's width
\* and height first, then the camera data is updated, then every pass of the
\* list is rendered exactly once in list order, and only then the "color"
\* texture is presented; no pass runs before the textures and the camera
\* buffer exist, and the present step precedes no pass.
C13_FrameStepOrder ==
    /\ fpc # "aborted"
    /\ executed = SubSeq(PassNames, 1, Len(executed))
    /\ fpc = "idle" => executed = <<>> /\ presented = Undefined
    /\ fpc = "camera" =>
          /\ TexturesCreated
          /\ MapGet(sharedBuffers, "camera") < MapGet(sharedTextures, "color")
          /\ executed = <<>>
    /\ fpc = "passes" =>
          /\ TexturesCreated
          /\ CameraUpdated
          /\ Len(executed) < Len(passes)
    /\ fpc = "present" =>
          /\ TexturesCreated
          /\ CameraUpdated
          /\ executed = PassNames
    /\ fpc = "done" =>
          /\ executed = PassNames
          /\ presented = MapGet(sharedTextures, "color")
          /\ Live(presented)
    /\ executed # <<>> =>
          /\ MapGet(sharedBuffers, "camera") > MapGet(sharedTextures, "normal")
          /\ MapGet(sharedBuffers, "vertex") > MapGet(sharedBuffers, "camera")

\* A second frame, after a resize, has run its three passes and presented
\* its own color texture.
C13_Witness ==
    /\ fpc = "done"
    /\ frame = 2
    /\ viewport.width = 2
    /\ executed = <<"TrianglePass", "CoordinatePlanePass", "SelectionOutlinePass">>
    /\ presented = MapGet(sharedTextures, "color")
    /\ device[presented].descriptor = TextureDescriptor(2, 1)

====
